---- MODULE Spec2Model ----
(***************************************************************************)
(* Contact form controllers of the fintech landing page.                   *)
(*                                                                         *)
(*   page = "class"  the ContactForm class (src/unnamed/part_000)          *)
(*   page = "app"    the functional form script (src/app.js)               *)
(*                                                                         *)
(* A page loads one of the two scripts.  Every action is one run of an     *)
(* event handler or timer callback on the single UI event loop; an async   *)
(* function contributes one action up to its await and one action for the  *)
(* continuation after the awaited promise settles.  Timers are untimed: a  *)
(* pending timer may fire at any later point.  All DOM elements the        *)
(* scripts look up are taken to be present.                                *)
(***************************************************************************)
EXTENDS Integers, Sequences, FiniteSets, TLC

VARIABLES
  page,               \* which script the page loaded
  fields,             \* the form's input elements: value, disabled, classList, ariaInvalid, errorText
  focus,              \* the field that holds focus, or "none"
  submitDisabled,     \* submitButton.disabled
  validationTimeout,  \* the pending debounce timer: the field it revalidates, or "none"
  calls,              \* simulated remote calls that have not settled yet
  state,              \* ContactForm.state
  stateLog,           \* values state went through in the latest handler that set it, oldest first
  display,            \* ContactForm.stateContainers[k].style.display # 'none'
  errorBanner,        \* text of the error container's message element
  dismissTimers,      \* pending 8000ms auto-dismiss timers per container
  formState,          \* app.js formState: isSubmitting, isSuccess, errors
  formMessage,        \* app.js .form-message element before the form: kind and text
  resetTimers,        \* app.js pending 5000ms resetForm timers
  debounceLog,        \* ContactForm email debounce: inputs of the current burst, and timer
                      \* callbacks run / validateField passes they made since the last input
  ev,                 \* the handler that ran last
  events,             \* user events dispatched so far
  buttons,            \* script.js .btn-morphing elements: kind, classList, disabled, pending timers
  konami,             \* script.js initKonamiCode: konamiCodePosition and what the last key did
  reveal,             \* scroll reveal: the motion preference and the observed elements
  morph,              \* app.js CTA buttons: attributes, content and buttonStates entry
  gestures            \* clicks, key presses and pointer moves on these widgets so far

vars == <<page, fields, focus, submitDisabled, validationTimeout, calls, state,
          stateLog, display, errorBanner, dismissTimers, formState, formMessage,
          resetTimers, debounceLog, ev, events, buttons, konami, reveal, morph, gestures>>

domVars   == <<fields, focus, submitDisabled>>
classVars == <<state, stateLog, display, errorBanner, dismissTimers>>
appVars   == <<formState, formMessage, resetTimers>>
widgetVars == <<buttons, konami, reveal, morph, gestures>>
formVars  == <<fields, focus, submitDisabled, validationTimeout, calls, state, stateLog,
               display, errorBanner, dismissTimers, formState, formMessage, resetTimers,
               debounceLog, ev, events>>

----------------------------------------------------------------------------
(* Bounds *)

MaxEvents == 4

----------------------------------------------------------------------------
(* Strings are sequences of one-character strings. *)

Letters == {"a","b","c","d","e","f","g","h","i","j","k","l","m","n","o","p","q",
            "r","s","t","u","v","w","x","y","z","A","B","C","D","E","F","G","H",
            "I","J","K","L","M","N","O","P","Q","R","S","T","U","V","W","X","Y","Z"}
Digits  == {"0","1","2","3","4","5","6","7","8","9"}

IsSpace(c) == c \in {" ", "\t", "\n"}

RECURSIVE TrimStart(_)
TrimStart(s) == IF s # <<>> /\ IsSpace(Head(s)) THEN TrimStart(Tail(s)) ELSE s

RECURSIVE TrimEnd(_)
TrimEnd(s) ==
  IF s # <<>> /\ IsSpace(s[Len(s)]) THEN TrimEnd(SubSeq(s, 1, Len(s) - 1)) ELSE s

Trim(s) == TrimEnd(TrimStart(s))

NoSpaceAt(s) == \A i \in 1..Len(s) : ~IsSpace(s[i]) /\ s[i] # "@"

\* /^[a-zA-Z\s'-]+$/
NamePattern(s) == Len(s) >= 1 /\ \A i \in 1..Len(s) : s[i] \in Letters \cup {"'", "-"} \/ IsSpace(s[i])

\* /^[^\s@]+@[^\s@]+$/
EmailPatternNoDot(s) ==
  \E a \in 2..(Len(s) - 1) :
     /\ s[a] = "@"
     /\ NoSpaceAt(SubSeq(s, 1, a - 1))
     /\ NoSpaceAt(SubSeq(s, a + 1, Len(s)))

\* /^[^\s@]+@[^\s@]+\.[^\s@]+$/
EmailPattern(s) ==
  \E a \in 2..Len(s) : \E d \in (a + 2)..(Len(s) - 1) :
     /\ s[a] = "@"
     /\ s[d] = "."
     /\ NoSpaceAt(SubSeq(s, 1, a - 1))
     /\ NoSpaceAt(SubSeq(s, a + 1, Len(s)))

\* /^[\d\s+()-]*$/
PhonePattern(s) == \A i \in 1..Len(s) : s[i] \in Digits \cup {"+", "(", ")", "-"} \/ IsSpace(s[i])

Test(pattern, s) ==
  CASE pattern = "name"  -> NamePattern(s)
    [] pattern = "email" -> EmailPattern(s)
    [] pattern = "phone" -> PhonePattern(s)
    [] OTHER             -> TRUE

----------------------------------------------------------------------------
(* ContactForm (src/unnamed/part_000): fields, rules, field markers *)

IDLE       == "idle"
SUBMITTING == "submitting"
SUCCESS    == "success"
ERROR      == "error"
FormState  == {IDLE, "validating", SUBMITTING, SUCCESS, ERROR}

\* Object.keys(this.fields), in order
FieldOrder == <<"name", "email", "company", "phone", "inquiryType", "message", "consent">>
FieldNames == {FieldOrder[i] : i \in 1..Len(FieldOrder)}

\* Object.keys(this.validationRules), in order
RuleOrder == <<"name", "email", "phone", "inquiryType", "message", "consent">>
RuleNames == {RuleOrder[i] : i \in 1..Len(RuleOrder)}

IsCheckbox(f) == f = "consent"

\* minLength / maxLength 0 and pattern "none" stand for an absent key
validationRules ==
  [name        |-> [required |-> TRUE,  minLength |-> 2,  maxLength |-> 100,  pattern |-> "name",
                    message |-> "Please enter a valid name (2-100 characters, letters only)"],
   email       |-> [required |-> TRUE,  minLength |-> 0,  maxLength |-> 0,    pattern |-> "email",
                    message |-> "Please enter a valid email address"],
   phone       |-> [required |-> FALSE, minLength |-> 10, maxLength |-> 0,    pattern |-> "phone",
                    message |-> "Please enter a valid phone number (at least 10 digits)"],
   inquiryType |-> [required |-> TRUE,  minLength |-> 0,  maxLength |-> 0,    pattern |-> "none",
                    message |-> "Please select an inquiry type"],
   message     |-> [required |-> TRUE,  minLength |-> 10, maxLength |-> 1000, pattern |-> "none",
                    message |-> "Please enter a message (10-1000 characters)"],
   consent     |-> [required |-> TRUE,  minLength |-> 0,  maxLength |-> 0,    pattern |-> "none",
                    message |-> "You must agree to the privacy policy and terms of service"]]

\* the value a field has after form.reset()
DefaultValue(f) == IF IsCheckbox(f) THEN FALSE ELSE <<>>

\* field.type === 'checkbox' ? field.checked : field.value.trim()
LiveValue(fs, f) == IF IsCheckbox(f) THEN fs[f].value ELSE Trim(fs[f].value)

Falsy(f, v) == IF IsCheckbox(f) THEN v = FALSE ELSE v = <<>>

\* showFieldError that leaves the success class in place
showFieldErrorKeepsSuccess(fs, f, message) ==
  [fs EXCEPT ![f].classList   = @ \cup {"error"},
             ![f].ariaInvalid = TRUE,
             ![f].errorText   = message]

showFieldError(fs, f, message) ==
  [fs EXCEPT ![f].classList   = (@ \cup {"error"}) \ {"success"},
             ![f].ariaInvalid = TRUE,
             ![f].errorText   = message]

clearFieldError(fs, f) ==
  [fs EXCEPT ![f].classList   = @ \ {"error"},
             ![f].ariaInvalid = FALSE,
             ![f].errorText   = ""]

markFieldValid(fs, f) ==
  [fs EXCEPT ![f].classList   = (@ \ {"error"}) \cup {"success", "validated"},
             ![f].ariaInvalid = FALSE]

\* the length and pattern rules applied to an empty value as well
FailingRuleNoGuard(fs, f) ==
  LET rules == validationRules[f]
      value == LiveValue(fs, f)
  IN  IF rules.required /\ Falsy(f, value) THEN "required"
      ELSE IF IsCheckbox(f) THEN "none"
      ELSE IF rules.minLength # 0 /\ Len(value) < rules.minLength THEN "minLength"
      ELSE IF rules.maxLength # 0 /\ Len(value) > rules.maxLength THEN "maxLength"
      ELSE IF rules.pattern # "none" /\ ~Test(rules.pattern, value) THEN "pattern"
      ELSE "none"

\* the rule that rejects the live value of f: "required", "minLength",
\* "maxLength", "pattern", or "none" when the value passes
FailingRule(fs, f) ==
  LET rules == validationRules[f]
      value == LiveValue(fs, f)
  IN  IF rules.required /\ Falsy(f, value) THEN "required"
      ELSE IF Falsy(f, value) THEN "none"
      ELSE IF IsCheckbox(f) THEN "none"
      ELSE IF rules.minLength # 0 /\ Len(value) < rules.minLength THEN "minLength"
      ELSE IF rules.maxLength # 0 /\ Len(value) > rules.maxLength THEN "maxLength"
      ELSE IF rules.pattern # "none" /\ ~Test(rules.pattern, value) THEN "pattern"
      ELSE "none"

\* the generic per-rule texts of validateField; the pattern rule has none
GenericMessage(f, rule) ==
  CASE rule = "required"  -> "This field is required"
    [] rule = "minLength" ->
         "Minimum " \o ToString(validationRules[f].minLength) \o " characters required"
    [] rule = "maxLength" ->
         "Maximum " \o ToString(validationRules[f].maxLength) \o " characters allowed"
    [] OTHER -> ""

\* rules.message || generic text ("" stands for an absent message)
ErrorMessage(f, rule) ==
  IF validationRules[f].message # "" THEN validationRules[f].message
  ELSE GenericMessage(f, rule)

\* a field without rules is rejected
validateFieldNeedsRule(fs, f) ==
  IF f \notin RuleNames
  THEN [valid |-> FALSE, fields |-> showFieldError(fs, f, "This field is required")]
  ELSE IF FailingRule(fs, f) # "none"
  THEN [valid |-> FALSE, fields |-> showFieldError(fs, f, ErrorMessage(f, FailingRule(fs, f)))]
  ELSE [valid |-> TRUE,  fields |-> markFieldValid(clearFieldError(fs, f), f)]

\* validateField(fieldName): the result and the fields after its side effects
validateField(fs, f) ==
  IF f \notin RuleNames
  THEN [valid |-> TRUE, fields |-> fs]
  ELSE IF FailingRule(fs, f) # "none"
  THEN [valid |-> FALSE, fields |-> showFieldError(fs, f, ErrorMessage(f, FailingRule(fs, f)))]
  ELSE [valid |-> TRUE,  fields |-> markFieldValid(clearFieldError(fs, f), f)]

\* validateAllFields(): validateField over RuleOrder[i..], accumulating isValid
RECURSIVE validateFrom(_, _, _)
validateFrom(fs, i, isValid) ==
  IF i > Len(RuleOrder)
  THEN [valid |-> isValid, fields |-> fs]
  ELSE LET r == validateField(fs, RuleOrder[i])
       IN  validateFrom(r.fields, i + 1, isValid /\ r.valid)

\* a loop that stops at the first field that fails
validateAllFieldsStopsAtFirst(fs) ==
  LET bad == {i \in 1..Len(RuleOrder) : ~validateField(fs, RuleOrder[i]).valid}
      last == IF bad = {} THEN Len(RuleOrder) ELSE CHOOSE i \in bad : \A j \in bad : i <= j
  IN  [valid  |-> bad = {},
       fields |-> [f \in FieldNames |->
                     IF \E i \in 1..last : RuleOrder[i] = f
                     THEN validateField(fs, f).fields[f] ELSE fs[f]]]

validateAllFields(fs) == validateFrom(fs, 1, TRUE)

\* form.querySelector('.error'): the first field in document order that
\* carries the error class, or "none"
FirstWithError(fs) ==
  LET idx == {i \in 1..Len(FieldOrder) : "error" \in fs[FieldOrder[i]].classList}
  IN  IF idx = {} THEN "none"
      ELSE FieldOrder[CHOOSE i \in idx : \A j \in idx : i <= j]

\* focuses the last field with the error class instead of the first
focusLastError(fs, fc) ==
  LET idx == {i \in 1..Len(FieldOrder) : "error" \in fs[FieldOrder[i]].classList}
  IN  IF idx = {} THEN fc ELSE FieldOrder[CHOOSE i \in idx : \A j \in idx : i >= j]

focusFirstError(fs, fc) == IF FirstWithError(fs) = "none" THEN fc ELSE FirstWithError(fs)

disableForm(fs) == [f \in FieldNames |-> [fs[f] EXCEPT !.disabled = TRUE]]
enableForm(fs)  == [f \in FieldNames |-> [fs[f] EXCEPT !.disabled = FALSE]]

hideAllStateMessages(d) == [k \in DOMAIN d |-> FALSE]

RECURSIVE clearFrom(_, _)
clearFrom(fs, i) ==
  IF i > Len(FieldOrder) THEN fs
  ELSE LET f == FieldOrder[i]
           cleared == [fs EXCEPT ![f].classList   = @ \ {"error", "success", "validated"},
                                 ![f].ariaInvalid = FALSE]
       IN  clearFrom(clearFieldError(cleared, f), i + 1)

\* resetForm() that resets the values but leaves the markers
resetFieldsKeepsMarkers(fs) ==
  [f \in FieldNames |-> [fs[f] EXCEPT !.value = DefaultValue(f)]]

\* resetForm(): form.reset(), then every field's markers are cleared
resetFields(fs) ==
  clearFrom([f \in FieldNames |-> [fs[f] EXCEPT !.value = DefaultValue(f)]], 1)

\* what simulateAPICall resolves with
Responses ==
  { [success |-> TRUE,  error |-> "null"],
    [success |-> FALSE, error |-> "Server error. Please try again later."] }

GenericFailure == "Submission failed. Please try again."

\* always the generic text
BannerTextGeneric(response) == GenericFailure

\* response.error || 'Submission failed. Please try again.'
BannerText(response) ==
  IF response.error \in {"null", ""} THEN GenericFailure ELSE response.error

----------------------------------------------------------------------------
(* Values a user types or selects *)

Str10 == <<"h","e","l","l","o"," ","t","e","a","m">>

InputValues(f) ==
  CASE f = "name"        -> { <<>>, <<"A","n","n">> }
    [] f = "email"       -> { <<>>, <<"a","@","b",".","c","o">>, <<"a","@","b">> }
    [] f = "company"     -> { <<>>, <<"C","o">> }
    [] f = "phone"       -> { <<>>, <<"1","2">> }
    [] f = "inquiryType" -> { <<>>, <<"s","a","l","e","s">> }
    [] f = "message"     -> { <<>>, Str10 }
    [] f = "consent"     -> { FALSE, TRUE }

----------------------------------------------------------------------------
(* The widgets besides the form, as the scripts find them when the page *)
(* has loaded *)

\* the two .btn-morphing CTAs of script.js
Buttons == {"hero", "cta"}

\* a CTA is a <button>, which receives no click while disabled, or an <a>,
\* on which the disabled property has no effect
ButtonKinds == {"button", "a"}

InitialButton(kind) ==
  [kind |-> kind, classList |-> {}, disabled |-> FALSE,
   operations |-> 0, resets |-> 0, log |-> <<>>]

WidgetsLoaded ==
  /\ buttons = [b \in Buttons |-> InitialButton("button")]
  /\ konami = [position |-> 0, matched |-> 0, activated |-> FALSE]
  /\ reveal = <<>>
  /\ morph = <<>>
  /\ gestures = 0

\* the contact form, empty and untouched
FormLoaded ==
  /\ fields = [f \in FieldNames |->
                 [value |-> DefaultValue(f), disabled |-> FALSE, classList |-> {},
                  ariaInvalid |-> FALSE, errorText |-> ""]]
  /\ focus = "none"
  /\ submitDisabled = FALSE
  /\ validationTimeout = "none"
  /\ calls = 0
  /\ state = IDLE
  /\ stateLog = <<IDLE>>
  /\ display = [loading |-> FALSE, success |-> FALSE, error |-> FALSE]
  /\ errorBanner = ""
  /\ dismissTimers = [success |-> 0, error |-> 0]
  /\ formState = [isSubmitting |-> FALSE, isSuccess |-> FALSE, errors |-> <<>>]
  /\ formMessage = [kind |-> "none", text |-> ""]
  /\ resetTimers = 0
  /\ debounceLog = [inputs |-> 0, runs |-> 0, passes |-> 0]
  /\ ev = "load"
  /\ events = 0

----------------------------------------------------------------------------
(* Initial state: the page has loaded one of the scripts.  The script finds *)
(* the form empty, or filled in already (values typed before the listeners *)
(* were attached, or restored by the browser); markers are as in the markup *)

FilledValue(f) ==
  CASE f = "name"        -> <<"A","n","n">>
    [] f = "email"       -> <<"a","@","b",".","c","o">>
    [] f = "company"     -> <<>>
    [] f = "phone"       -> <<>>
    [] f = "inquiryType" -> <<"s","a","l","e","s">>
    [] f = "message"     -> Str10
    [] f = "consent"     -> TRUE

InitialForms ==
  { [f \in FieldNames |-> DefaultValue(f)], [f \in FieldNames |-> FilledValue(f)] }

InitField(v) ==
  [value |-> v, disabled |-> FALSE, classList |-> {},
   ariaInvalid |-> FALSE, errorText |-> ""]

Init ==
  /\ page \in {"class", "app"}
  /\ \E form \in InitialForms : fields = [f \in FieldNames |-> InitField(form[f])]
  /\ focus = "none"
  /\ submitDisabled = FALSE
  /\ validationTimeout = "none"
  /\ calls = 0
  /\ state = IDLE
  /\ stateLog = <<IDLE>>
  /\ display = [loading |-> FALSE, success |-> FALSE, error |-> FALSE]
  /\ errorBanner = ""
  /\ dismissTimers = [success |-> 0, error |-> 0]
  /\ formState = [isSubmitting |-> FALSE, isSuccess |-> FALSE, errors |-> <<>>]
  /\ formMessage = [kind |-> "none", text |-> ""]
  /\ resetTimers = 0
  /\ debounceLog = [inputs |-> 0, runs |-> 0, passes |-> 0]
  /\ ev = "load"
  /\ events = 0
  /\ WidgetsLoaded

----------------------------------------------------------------------------
(* ContactForm handlers *)

\* 'input' listeners: clearFieldError, and debounceValidation on the email field
\* an input handler that does not call clearFieldError
ClassInputKeepsError(f, v) ==
  /\ page = "class"
  /\ events < MaxEvents
  /\ ~fields[f].disabled
  /\ v # fields[f].value
  /\ fields' = [fields EXCEPT ![f].value = v]
  /\ focus' = f
  /\ validationTimeout' = IF f = "email" THEN "email" ELSE validationTimeout
  /\ debounceLog' = IF f = "email"
                    THEN [inputs |-> IF validationTimeout = "none" THEN 1
                                     ELSE debounceLog.inputs + 1,
                          runs |-> 0, passes |-> 0]
                    ELSE debounceLog
  /\ ev' = "input"
  /\ events' = events + 1
  /\ UNCHANGED <<page, widgetVars, submitDisabled, calls, classVars, appVars>>

ClassInput(f, v) ==
  /\ page = "class"
  /\ events < MaxEvents
  /\ ~fields[f].disabled
  /\ v # fields[f].value
  /\ fields' = clearFieldError([fields EXCEPT ![f].value = v], f)
  /\ focus' = f
  /\ validationTimeout' = IF f = "email" THEN "email" ELSE validationTimeout
  /\ debounceLog' = IF f = "email"
                    THEN [inputs |-> IF validationTimeout = "none" THEN 1
                                     ELSE debounceLog.inputs + 1,
                          runs |-> 0, passes |-> 0]
                    ELSE debounceLog
  /\ ev' = "input"
  /\ events' = events + 1
  /\ UNCHANGED <<page, widgetVars, submitDisabled, calls, classVars, appVars>>

\* 'blur' listener: validateField(fieldName)
ClassBlur(f) ==
  /\ page = "class"
  /\ events < MaxEvents
  /\ ~fields[f].disabled
  /\ fields' = validateField(fields, f).fields
  /\ focus' = "none"
  /\ ev' = "blur"
  /\ events' = events + 1
  /\ UNCHANGED <<page, widgetVars, debounceLog, submitDisabled, validationTimeout, calls, classVars, appVars>>

\* the debounce timer set by debounceValidation fires
\* a timer that repeats: the callback runs and the timer stays pending
ClassDebounceRepeats ==
  /\ page = "class"
  /\ validationTimeout # "none"
  /\ fields' = IF Trim(fields[validationTimeout].value) # <<>>
               THEN validateField(fields, validationTimeout).fields
               ELSE fields
  /\ debounceLog' = [debounceLog EXCEPT
                      !.runs = @ + 1,
                      !.passes = IF Trim(fields[validationTimeout].value) # <<>>
                                 THEN @ + 1 ELSE @]
  /\ ev' = "debounce"
  /\ UNCHANGED <<page, widgetVars, validationTimeout, focus, submitDisabled, calls, classVars,
                 appVars, events>>

\* a callback that validates whatever the value is
ClassDebounceAlways ==
  /\ page = "class"
  /\ validationTimeout # "none"
  /\ fields' = validateField(fields, validationTimeout).fields
  /\ validationTimeout' = "none"
  /\ debounceLog' = [debounceLog EXCEPT !.runs = @ + 1, !.passes = @ + 1]
  /\ ev' = "debounce"
  /\ UNCHANGED <<page, widgetVars, focus, submitDisabled, calls, classVars, appVars, events>>

ClassDebounce ==
  /\ page = "class"
  /\ validationTimeout # "none"
  /\ fields' = IF Trim(fields[validationTimeout].value) # <<>>
               THEN validateField(fields, validationTimeout).fields
               ELSE fields
  /\ validationTimeout' = "none"
  /\ debounceLog' = [debounceLog EXCEPT
                      !.runs = @ + 1,
                      !.passes = IF Trim(fields[validationTimeout].value) # <<>>
                                 THEN @ + 1 ELSE @]
  /\ ev' = "debounce"
  /\ UNCHANGED <<page, widgetVars, focus, submitDisabled, calls, classVars, appVars, events>>

\* handleSubmit while a submission is in progress: the re-entrancy guard returns
SubmitIgnored ==
  /\ ev' = "submit_ignored"
  /\ state = SUBMITTING
  /\ UNCHANGED <<domVars, validationTimeout, calls, classVars>>

\* handleSubmit when validateAllFields() fails: focusFirstError() and return
SubmitInvalid ==
  LET r == validateAllFields(fields) IN
  /\ ev' = "submit_invalid"
  /\ state # SUBMITTING
  /\ ~r.valid
  /\ fields' = r.fields
  /\ focus' = focusFirstError(r.fields, focus)
  /\ UNCHANGED <<submitDisabled, validationTimeout, calls, classVars>>

\* handleSubmit without the re-entrancy guard
SubmitValidUnguarded ==
  LET r == validateAllFields(fields) IN
  /\ ev' = "submit_valid"
  /\ r.valid
  /\ state' = SUBMITTING
  /\ stateLog' = <<state, SUBMITTING>>
  /\ fields' = disableForm(r.fields)
  /\ submitDisabled' = TRUE
  /\ display' = [hideAllStateMessages(display) EXCEPT !.loading = TRUE]
  /\ calls' = calls + 1
  /\ UNCHANGED <<focus, validationTimeout, errorBanner, dismissTimers>>

\* submitForm without hideAllStateMessages()
SubmitValidKeepsBanners ==
  LET r == validateAllFields(fields) IN
  /\ ev' = "submit_valid"
  /\ state # SUBMITTING
  /\ r.valid
  /\ state' = SUBMITTING
  /\ stateLog' = <<state, SUBMITTING>>
  /\ fields' = disableForm(r.fields)
  /\ submitDisabled' = TRUE
  /\ display' = [display EXCEPT !.loading = TRUE]
  /\ calls' = calls + 1
  /\ UNCHANGED <<focus, validationTimeout, errorBanner, dismissTimers>>

\* handleSubmit when validation passes: submitForm() up to its await
SubmitValid ==
  LET r == validateAllFields(fields) IN
  /\ ev' = "submit_valid"
  /\ state # SUBMITTING
  /\ r.valid
  /\ state' = SUBMITTING
  /\ stateLog' = <<state, SUBMITTING>>
  /\ fields' = disableForm(r.fields)
  /\ submitDisabled' = TRUE
  /\ display' = [hideAllStateMessages(display) EXCEPT !.loading = TRUE]
  /\ calls' = calls + 1
  /\ UNCHANGED <<focus, validationTimeout, errorBanner, dismissTimers>>

handleSubmit ==
  /\ page = "class"
  /\ events < MaxEvents
  /\ events' = events + 1
  /\ (SubmitIgnored \/ SubmitInvalid \/ SubmitValid)
  /\ UNCHANGED <<page, widgetVars, debounceLog, appVars>>

\* the success branch without setState(FormState.SUCCESS)
ResolveSuccessSkipsSuccess ==
  /\ state' = IDLE
  /\ stateLog' = <<state, IDLE>>
  /\ display' = [display EXCEPT !.success = TRUE, !.loading = FALSE]
  /\ dismissTimers' = [dismissTimers EXCEPT !.success = @ + 1]
  /\ fields' = enableForm(resetFields(fields))
  /\ submitDisabled' = FALSE
  /\ ev' = "resolve_success"
  /\ UNCHANGED <<errorBanner>>

\* submitForm() after the await, when the response reports success
ResolveSuccess ==
  /\ state' = IDLE
  /\ stateLog' = <<state, SUCCESS, IDLE>>
  /\ display' = [display EXCEPT !.success = TRUE, !.loading = FALSE]
  /\ dismissTimers' = [dismissTimers EXCEPT !.success = @ + 1]
  /\ fields' = enableForm(resetFields(fields))
  /\ submitDisabled' = FALSE
  /\ ev' = "resolve_success"
  /\ UNCHANGED <<errorBanner>>

\* the failure branch without the finally block
ResolveFailureNoFinally(response) ==
  /\ state' = ERROR
  /\ stateLog' = <<state, ERROR>>
  /\ errorBanner' = BannerText(response)
  /\ display' = [display EXCEPT !.error = TRUE]
  /\ dismissTimers' = [dismissTimers EXCEPT !.error = @ + 1]
  /\ ev' = "resolve_failure"
  /\ UNCHANGED <<fields, submitDisabled>>

\* the failure branch when it also calls resetForm()
ResolveFailureResets(response) ==
  /\ state' = ERROR
  /\ stateLog' = <<state, ERROR>>
  /\ errorBanner' = BannerText(response)
  /\ display' = [display EXCEPT !.error = TRUE, !.loading = FALSE]
  /\ dismissTimers' = [dismissTimers EXCEPT !.error = @ + 1]
  /\ fields' = enableForm(resetFields(fields))
  /\ submitDisabled' = FALSE
  /\ ev' = "resolve_failure"

\* submitForm() after the await, when the response reports failure
ResolveFailure(response) ==
  /\ state' = ERROR
  /\ stateLog' = <<state, ERROR>>
  /\ errorBanner' = BannerText(response)
  /\ display' = [display EXCEPT !.error = TRUE, !.loading = FALSE]
  /\ dismissTimers' = [dismissTimers EXCEPT !.error = @ + 1]
  /\ fields' = enableForm(fields)
  /\ submitDisabled' = FALSE
  /\ ev' = "resolve_failure"

\* the 2000ms timer of simulateAPICall fires and submitForm() resumes
ClassResolve(response) ==
  /\ page = "class"
  /\ calls > 0
  /\ calls' = calls - 1
  /\ IF response.success THEN ResolveSuccess ELSE ResolveFailure(response)
  /\ UNCHANGED <<page, widgetVars, debounceLog, focus, validationTimeout, appVars, events>>

\* an 8000ms auto-dismiss timer of showSuccessMessage / showErrorMessage fires
ClassDismiss(k) ==
  /\ page = "class"
  /\ dismissTimers[k] > 0
  /\ dismissTimers' = [dismissTimers EXCEPT ![k] = @ - 1]
  /\ display' = [display EXCEPT ![k] = FALSE]
  /\ ev' = "dismiss"
  /\ UNCHANGED <<page, widgetVars, debounceLog, domVars, validationTimeout, calls, state, stateLog, errorBanner,
                 appVars, events>>

ClassNext ==
  \/ \E f \in FieldNames : \E v \in InputValues(f) : ClassInput(f, v)
  \/ \E f \in FieldNames : ClassBlur(f)
  \/ ClassDebounce
  \/ handleSubmit
  \/ \E response \in Responses : ClassResolve(response)
  \/ \E k \in {"success", "error"} : ClassDismiss(k)

----------------------------------------------------------------------------
(* Functional form script (src/app.js) *)

\* the inputs that have listeners, in the order validateForm() checks them
AppOrder  == <<"name", "email", "message">>
AppFields == {AppOrder[i] : i \in 1..Len(AppOrder)}

MIN_NAME_LENGTH    == 2
MAX_NAME_LENGTH    == 100
MIN_MESSAGE_LENGTH == 10
MAX_MESSAGE_LENGTH == 1000

\* the switch of validateField: the error message, "" when the field is valid
AppErrorMessage(fs, f) ==
  LET v == Trim(fs[f].value) IN
  CASE f = "name" ->
         IF v = <<>> THEN "Name is required"
         ELSE IF Len(v) < MIN_NAME_LENGTH THEN "Name must be at least 2 characters"
         ELSE IF Len(v) > MAX_NAME_LENGTH THEN "Name must not exceed 100 characters"
         ELSE ""
    [] f = "email" ->
         IF v = <<>> THEN "Email is required"
         ELSE IF ~EmailPattern(v) THEN "Please enter a valid email address"
         ELSE ""
    [] f = "message" ->
         IF v = <<>> THEN "Message is required"
         ELSE IF Len(v) < MIN_MESSAGE_LENGTH THEN "Message must be at least 10 characters"
         ELSE IF Len(v) > MAX_MESSAGE_LENGTH THEN "Message must not exceed 1000 characters"
         ELSE ""
    [] OTHER -> ""

\* removeFieldError that leaves the error message element in place
appRemoveFieldErrorKeepsText(fs, f) ==
  [fs EXCEPT ![f].classList = @ \ {"error"}, ![f].ariaInvalid = FALSE]

appRemoveFieldError(fs, f) ==
  [fs EXCEPT ![f].classList = @ \ {"error"}, ![f].ariaInvalid = FALSE, ![f].errorText = ""]

appShowFieldError(fs, f, message) ==
  [appRemoveFieldError(fs, f) EXCEPT ![f].classList = @ \cup {"error"},
                                     ![f].ariaInvalid = TRUE,
                                     ![f].errorText = message]

\* formState.errors is an object whose keys keep insertion order: a sequence
HasError(errors, f) == \E i \in 1..Len(errors) : errors[i].field = f

\* delete formState.errors[fieldName]
DeleteError(errors, f) == SelectSeq(errors, LAMBDA e : e.field # f)

\* formState.errors[fieldName] = errorMessage
SetError(errors, f, message) ==
  IF HasError(errors, f)
  THEN [i \in 1..Len(errors) |->
          IF errors[i].field = f THEN [field |-> f, message |-> message] ELSE errors[i]]
  ELSE Append(errors, [field |-> f, message |-> message])

\* validateField(fieldName): result, formState.errors and fields afterwards
appValidateField(errors, fs, f) ==
  LET errorMessage == AppErrorMessage(fs, f) IN
  IF errorMessage = ""
  THEN [valid |-> TRUE,  errors |-> DeleteError(errors, f), fields |-> appRemoveFieldError(fs, f)]
  ELSE [valid |-> FALSE, errors |-> SetError(errors, f, errorMessage),
        fields |-> appShowFieldError(fs, f, errorMessage)]

\* validateForm(): name, email and message are all validated, in this order
validateForm(errors, fs) ==
  LET n == appValidateField(errors, fs, "name")
      e == appValidateField(n.errors, n.fields, "email")
      m == appValidateField(e.errors, e.fields, "message")
  IN  [valid |-> n.valid /\ e.valid /\ m.valid, errors |-> m.errors, fields |-> m.fields]

\* Object.keys(formState.errors)[0]
FirstErrorField(errors) == IF errors = <<>> THEN "none" ELSE errors[1].field

NoMessage == [kind |-> "none", text |-> ""]

InitialFormState == [isSubmitting |-> FALSE, isSuccess |-> FALSE, errors |-> <<>>]

\* what the promise of submitFormData settles with
AppOutcomes ==
  { [success |-> TRUE,  message |-> "Form submitted successfully"],
    [success |-> FALSE, message |-> "Network error occurred"] }

\* 'input' listeners: restart the one shared debounce timer for this input
AppInput(f, v) ==
  /\ page = "app"
  /\ events < MaxEvents
  /\ v # fields[f].value
  /\ fields' = [fields EXCEPT ![f].value = v]
  /\ focus' = f
  /\ validationTimeout' = f
  /\ ev' = "input"
  /\ events' = events + 1
  /\ UNCHANGED <<page, widgetVars, debounceLog, submitDisabled, calls, classVars, appVars>>

\* 'blur' listeners: validateField(name)
AppBlur(f) ==
  LET r == appValidateField(formState.errors, fields, f) IN
  /\ page = "app"
  /\ events < MaxEvents
  /\ fields' = r.fields
  /\ formState' = [formState EXCEPT !.errors = r.errors]
  /\ focus' = "none"
  /\ ev' = "blur"
  /\ events' = events + 1
  /\ UNCHANGED <<page, widgetVars, debounceLog, submitDisabled, validationTimeout, calls, classVars,
                 formMessage, resetTimers>>

\* the shared debounce timer fires: validateField(input.name)
AppDebounce ==
  LET r == appValidateField(formState.errors, fields, validationTimeout) IN
  /\ page = "app"
  /\ validationTimeout # "none"
  /\ fields' = r.fields
  /\ formState' = [formState EXCEPT !.errors = r.errors]
  /\ validationTimeout' = "none"
  /\ ev' = "debounce"
  /\ UNCHANGED <<page, widgetVars, debounceLog, focus, submitDisabled, calls, classVars, formMessage,
                 resetTimers, events>>

\* handleFormSubmit up to its await: removeFormMessage(), validateForm(), the
\* double-submission check, setFormLoadingState(true), submitFormData()
handleFormSubmit ==
  LET r == validateForm(formState.errors, fields) IN
  /\ page = "app"
  /\ events < MaxEvents
  /\ events' = events + 1
  /\ formMessage' = NoMessage
  /\ fields' = r.fields
  /\ IF ~r.valid
     THEN /\ focus' = IF FirstErrorField(r.errors) = "none" THEN focus
                      ELSE FirstErrorField(r.errors)
          /\ formState' = [formState EXCEPT !.errors = r.errors]
          /\ ev' = "submit_invalid"
          /\ UNCHANGED <<submitDisabled, calls>>
     ELSE IF formState.isSubmitting
     THEN /\ formState' = [formState EXCEPT !.errors = r.errors]
          /\ ev' = "submit_ignored"
          /\ UNCHANGED <<focus, submitDisabled, calls>>
     ELSE /\ formState' = [formState EXCEPT !.errors = r.errors, !.isSubmitting = TRUE]
          /\ submitDisabled' = TRUE
          /\ calls' = calls + 1
          /\ ev' = "submit_valid"
          /\ UNCHANGED <<focus>>
  /\ UNCHANGED <<page, widgetVars, debounceLog, validationTimeout, classVars, resetTimers>>

\* handleFormSubmit after the await: showSuccessMessage() and the 5000ms
\* resetForm timer, or the catch block; then the finally block
AppResolve(outcome) ==
  /\ page = "app"
  /\ calls > 0
  /\ calls' = calls - 1
  /\ IF outcome.success
     THEN /\ formState' = [formState EXCEPT !.isSuccess = TRUE, !.isSubmitting = FALSE]
          /\ formMessage' = [kind |-> "success", text |-> "Thank you for your message!"]
          /\ resetTimers' = resetTimers + 1
          /\ ev' = "resolve_success"
     ELSE /\ formState' = [formState EXCEPT !.isSubmitting = FALSE]
          /\ formMessage' = [kind |-> "error",
                             text |-> IF outcome.message = ""
                                      THEN "Unable to submit form. Please try again."
                                      ELSE outcome.message]
          /\ ev' = "resolve_failure"
          /\ UNCHANGED resetTimers
  /\ submitDisabled' = FALSE
  /\ UNCHANGED <<page, widgetVars, debounceLog, fields, focus, validationTimeout, classVars, events>>

RECURSIVE appClearFrom(_, _)
appClearFrom(fs, i) ==
  IF i > Len(AppOrder) THEN fs ELSE appClearFrom(appRemoveFieldError(fs, AppOrder[i]), i + 1)

\* resetForm() that keeps formState.errors and the fields' error markers
AppResetKeepsErrors ==
  /\ page = "app"
  /\ resetTimers > 0
  /\ resetTimers' = resetTimers - 1
  /\ fields' = [f \in FieldNames |-> [fields[f] EXCEPT !.value = DefaultValue(f)]]
  /\ formState' = [InitialFormState EXCEPT !.errors = formState.errors]
  /\ formMessage' = NoMessage
  /\ ev' = "reset"
  /\ UNCHANGED <<page, widgetVars, debounceLog, focus, submitDisabled, validationTimeout, calls, classVars, events>>

\* a 5000ms timer fires: resetForm()
AppReset ==
  /\ page = "app"
  /\ resetTimers > 0
  /\ resetTimers' = resetTimers - 1
  /\ fields' = appClearFrom([f \in FieldNames |-> [fields[f] EXCEPT !.value = DefaultValue(f)]], 1)
  /\ formState' = InitialFormState
  /\ formMessage' = NoMessage
  /\ ev' = "reset"
  /\ UNCHANGED <<page, widgetVars, debounceLog, focus, submitDisabled, validationTimeout, calls, classVars, events>>

AppNext ==
  \/ \E f \in AppFields : \E v \in InputValues(f) : AppInput(f, v)
  \/ \E f \in AppFields : AppBlur(f)
  \/ AppDebounce
  \/ handleFormSubmit
  \/ \E outcome \in AppOutcomes : AppResolve(outcome)
  \/ AppReset

----------------------------------------------------------------------------

Next == ClassNext \/ AppNext

Spec == Init /\ [][Next]_vars

\* timers that are pending fire eventually
FairSpec ==
  /\ Spec
  /\ WF_vars(\E response \in Responses : ClassResolve(response))
  /\ WF_vars(\E outcome \in AppOutcomes : AppResolve(outcome))

----------------------------------------------------------------------------
(* validateField on its own: the user has typed one value into one field of *)
(* a freshly loaded form and leaves the field; the blur listener validates it *)

MaxEmailLen == 5
MaxNameLen  == 3

Rep(c, n) == [i \in 1..n |-> c]

Strings(A, n) == UNION {[1..k -> A] : k \in 0..n}

Padded(S) == S \cup {<<" ">> \o v \o <<"\t", "\n">> : v \in S}

TestValues(f) ==
  CASE f = "name"  ->
         Padded(Strings({"A", "z", "é", "1", " ", "'"}, MaxNameLen))
           \cup {Rep("A", n) : n \in {99, 100, 101}}
           \cup {Rep("é", 100), <<" ">> \o Rep("b", 100) \o <<" ">>, <<" ">> \o Rep("b", 101)}
    [] f = "email" -> Padded(Strings({"a", "@", ".", " "}, MaxEmailLen))
    [] f = "phone" ->
         Padded({ <<>>, <<"1","2">>, <<"a","b","c">>, Rep("1", 9), Rep("1", 10),
                  Rep("1", 9) \o <<"a">>,
                  <<"+","1"," ","(","2","3","4",")"," ","5","6","7","-","8","9","0","1">> })
    [] f = "message" ->
         Padded({Rep("m", n) : n \in {0, 1, 9, 10, 11, 999, 1000, 1001}})
    [] f = "consent" -> {FALSE, TRUE}
    [] OTHER -> InputValues(f)

ValidateInit ==
  /\ page \in {"class", "app"}
  /\ \E f \in (IF page = "class" THEN FieldNames ELSE AppFields) :
       \E v \in TestValues(f) :
         /\ fields = [g \in FieldNames |-> InitField(IF g = f THEN v ELSE DefaultValue(g))]
         /\ focus = f
  /\ submitDisabled = FALSE
  /\ validationTimeout = "none"
  /\ calls = 0
  /\ state = IDLE
  /\ stateLog = <<IDLE>>
  /\ display = [loading |-> FALSE, success |-> FALSE, error |-> FALSE]
  /\ errorBanner = ""
  /\ dismissTimers = [success |-> 0, error |-> 0]
  /\ formState = [isSubmitting |-> FALSE, isSuccess |-> FALSE, errors |-> <<>>]
  /\ formMessage = [kind |-> "none", text |-> ""]
  /\ resetTimers = 0
  /\ debounceLog = [inputs |-> 0, runs |-> 0, passes |-> 0]
  /\ ev = "load"
  /\ events = 0
  /\ WidgetsLoaded

ValidateNext ==
  \/ \E f \in FieldNames : focus = f /\ ClassBlur(f)
  \/ \E f \in AppFields : focus = f /\ AppBlur(f)

ValidateSpec == ValidateInit /\ [][ValidateNext]_vars

----------------------------------------------------------------------------
(* script.js initMorphingButtons: the click listener of each .btn-morphing *)
(* element, the 1500ms simulated operation and the 2000ms reset timer *)

MaxClicks == 4

ButtonInit ==
  /\ page = "script"
  /\ FormLoaded
  /\ \E kinds \in [Buttons -> ButtonKinds] :
       buttons = [b \in Buttons |-> InitialButton(kinds[b])]
  /\ konami = [position |-> 0, matched |-> 0, activated |-> FALSE]
  /\ reveal = <<>>
  /\ morph = <<>>
  /\ gestures = 0

\* a click listener without the loading/success test
BtnClickNoGuard(b) ==
  /\ page = "script"
  /\ gestures < MaxClicks
  /\ buttons[b].kind = "a" \/ ~buttons[b].disabled
  /\ gestures' = gestures + 1
  /\ buttons' = [buttons EXCEPT ![b].classList  = @ \cup {"loading"},
                                ![b].disabled   = TRUE,
                                ![b].operations = @ + 1,
                                ![b].log        = <<"loading">>]
  /\ UNCHANGED <<page, formVars, konami, reveal, morph>>

\* the click listener up to its await
BtnClick(b) ==
  /\ page = "script"
  /\ gestures < MaxClicks
  /\ buttons[b].kind = "a" \/ ~buttons[b].disabled
  /\ gestures' = gestures + 1
  /\ IF buttons[b].classList \cap {"loading", "success"} # {}
     THEN buttons' = buttons
     ELSE buttons' = [buttons EXCEPT ![b].classList  = @ \cup {"loading"},
                                     ![b].disabled   = TRUE,
                                     ![b].operations = @ + 1,
                                     ![b].log        = <<"loading">>]
  /\ UNCHANGED <<page, formVars, konami, reveal, morph>>

\* a continuation that goes back to idle without showing success
BtnOperationDoneSkipsSuccess(b) ==
  /\ page = "script"
  /\ buttons[b].operations > 0
  /\ buttons' = [buttons EXCEPT ![b].classList  = @ \ {"loading"},
                                ![b].disabled   = FALSE,
                                ![b].operations = @ - 1,
                                ![b].log        = Append(@, "idle")]
  /\ UNCHANGED <<page, formVars, konami, reveal, morph, gestures>>

\* simulateAsyncOperation resolves: the listener after its await
BtnOperationDone(b) ==
  /\ page = "script"
  /\ buttons[b].operations > 0
  /\ buttons' = [buttons EXCEPT ![b].classList  = (@ \ {"loading"}) \cup {"success"},
                                ![b].operations = @ - 1,
                                ![b].resets     = @ + 1,
                                ![b].log        = Append(@, "success")]
  /\ UNCHANGED <<page, formVars, konami, reveal, morph, gestures>>

\* the 2000ms timer fires
BtnReset(b) ==
  /\ page = "script"
  /\ buttons[b].resets > 0
  /\ buttons' = [buttons EXCEPT ![b].classList = @ \ {"success"},
                                ![b].disabled  = FALSE,
                                ![b].resets    = @ - 1,
                                ![b].log       = Append(@, "idle")]
  /\ UNCHANGED <<page, formVars, konami, reveal, morph, gestures>>

ButtonNext ==
  \/ \E b \in Buttons : BtnClick(b)
  \/ \E b \in Buttons : BtnOperationDone(b)
  \/ \E b \in Buttons : BtnReset(b)

ButtonSpec == ButtonInit /\ [][ButtonNext]_vars

\* every timer that is pending fires
ButtonFairSpec ==
  /\ ButtonSpec
  /\ \A b \in Buttons : WF_vars(BtnOperationDone(b)) /\ WF_vars(BtnReset(b))

----------------------------------------------------------------------------
(* script.js initKonamiCode: the keydown listener.  konami.matched is the *)
(* length of the longest beginning of konamiCode that the most recent keys *)
(* spell, so it is 10 exactly when the last ten keys are the whole code *)

MaxKeys == 11

konamiCode ==
  <<"ArrowUp", "ArrowUp", "ArrowDown", "ArrowDown",
    "ArrowLeft", "ArrowRight", "ArrowLeft", "ArrowRight", "b", "a">>

Keys == {konamiCode[i] : i \in 1..Len(konamiCode)} \cup {"x"}

IsSuffix(s, t) == Len(s) <= Len(t) /\ s = SubSeq(t, Len(t) - Len(s) + 1, Len(t))

LongestMatch(n, key) ==
  LET typed == Append(SubSeq(konamiCode, 1, n), key)
      fits  == {k \in 0..Len(konamiCode) : IsSuffix(SubSeq(konamiCode, 1, k), typed)}
  IN  CHOOSE k \in fits : \A j \in fits : j <= k

KonamiInit ==
  /\ page = "script"
  /\ FormLoaded
  /\ buttons = [b \in Buttons |-> InitialButton("button")]
  /\ konami = [position |-> 0, matched |-> 0, activated |-> FALSE]
  /\ reveal = <<>>
  /\ morph = <<>>
  /\ gestures = 0

\* the keydown listener
KeyDown(key) ==
  /\ page = "script"
  /\ gestures < MaxKeys
  /\ gestures' = gestures + 1
  /\ konami' =
       [position  |-> IF key = konamiCode[konami.position + 1]
                      THEN IF konami.position + 1 = Len(konamiCode) THEN 0
                           ELSE konami.position + 1
                      ELSE 0,
        activated |-> key = konamiCode[konami.position + 1]
                        /\ konami.position + 1 = Len(konamiCode),
        matched   |-> LongestMatch(konami.matched, key)]
  /\ UNCHANGED <<page, formVars, buttons, reveal, morph>>

KonamiNext == \E key \in Keys : KeyDown(key)

KonamiSpec == KonamiInit /\ [][KonamiNext]_vars

----------------------------------------------------------------------------
(* Scroll reveal: script.js initScrollReveal (class 'revealed') and app.js *)
(* initScrollReveal / handleIntersection (attribute data-reveal).  An element *)
(* is "hidden" until revealed, "visible" once revealed, and "plain" when *)
(* app.js has removed data-reveal because reduced motion is preferred *)

RevealCount == 3

RevealElements == 1..RevealCount

RevealModes(p) ==
  IF p = "app" THEN {"observer", "reducedMotion", "noObserver"}
  ELSE {"observer", "reducedMotion"}

\* what initScrollReveal leaves behind
RevealLoaded(p, mode) ==
  [mode |-> mode,
   els  |-> [e \in RevealElements |->
               [observed  |-> mode = "observer",
                inView    |-> FALSE,
                shown     |-> IF mode = "observer" THEN "hidden"
                              ELSE IF mode = "reducedMotion" /\ p = "app" THEN "plain"
                              ELSE "visible",
                timers    |-> 0,
                scheduled |-> 0]]]

RevealInit ==
  /\ page \in {"script", "app"}
  /\ FormLoaded
  /\ buttons = [b \in Buttons |-> InitialButton("button")]
  /\ konami = [position |-> 0, matched |-> 0, activated |-> FALSE]
  /\ \E mode \in RevealModes(page) : reveal = RevealLoaded(page, mode)
  /\ morph = <<>>
  /\ gestures = 0

\* an observer callback that keeps observing the element
ScrollKeepsObserving(e) ==
  LET el == reveal.els[e] IN
  /\ reveal # <<>>
  /\ reveal' =
       IF el.observed /\ ~el.inView
       THEN [reveal EXCEPT !.els[e].inView    = TRUE,
                           !.els[e].timers    = @ + 1,
                           !.els[e].scheduled = @ + 1]
       ELSE [reveal EXCEPT !.els[e].inView = ~@]
  /\ UNCHANGED <<page, formVars, buttons, konami, morph, gestures>>

\* the page scrolls and element e enters or leaves the observed area; the
\* observer calls back only for elements it still observes
Scroll(e) ==
  LET el == reveal.els[e] IN
  /\ reveal # <<>>
  /\ reveal' =
       IF el.observed /\ ~el.inView
       THEN [reveal EXCEPT !.els[e].inView    = TRUE,
                           !.els[e].timers    = @ + 1,
                           !.els[e].scheduled = @ + 1,
                           !.els[e].observed  = FALSE]
       ELSE [reveal EXCEPT !.els[e].inView = ~@]
  /\ UNCHANGED <<page, formVars, buttons, konami, morph, gestures>>

\* the stagger timer of element e fires
RevealTimer(e) ==
  /\ reveal # <<>>
  /\ reveal.els[e].timers > 0
  /\ reveal' = [reveal EXCEPT !.els[e].timers = @ - 1, !.els[e].shown = "visible"]
  /\ UNCHANGED <<page, formVars, buttons, konami, morph, gestures>>

RevealNext ==
  \/ \E e \in RevealElements : Scroll(e)
  \/ \E e \in RevealElements : RevealTimer(e)

RevealSpec == RevealInit /\ [][RevealNext]_vars

----------------------------------------------------------------------------
(* app.js button morphing: the 'Get Started' CTAs.  content is what the *)
(* button shows ("original", "loading" or "success"), saved is the *)
(* data-original-content attribute ("none" when absent), step is the await *)
(* at which handleButtonClick is suspended *)

MaxMorphEvents == 3

\* an in-page link, a link to "#" and a <button>
MorphButtons == {"link", "hash", "plain"}

Href(b) ==
  CASE b = "link" -> "#contact"
    [] b = "hash" -> "#"
    [] OTHER      -> ""

MorphLoaded ==
  [b \in MorphButtons |->
     [morphState |-> "none", disabled |-> FALSE, content |-> "original", saved |-> "none",
      isProcessing |-> FALSE, step |-> "none"]]

MorphInit ==
  /\ page = "app"
  /\ FormLoaded
  /\ buttons = [b \in Buttons |-> InitialButton("button")]
  /\ konami = [position |-> 0, matched |-> 0, activated |-> FALSE]
  /\ reveal = <<>>
  /\ morph = MorphLoaded
  /\ gestures = 0

\* setButtonLoadingState(button, true), up to its timer
setButtonLoadingState(m) ==
  [m EXCEPT !.morphState = "loading", !.disabled = TRUE,
            !.saved = m.content, !.content = "loading"]

\* handleButtonHover / handleButtonActive
MorphPointer(b, morphState) ==
  /\ morph # <<>>
  /\ gestures < MaxMorphEvents
  /\ gestures' = gestures + 1
  /\ morph' = IF morph[b].isProcessing THEN morph
              ELSE [morph EXCEPT ![b].morphState = morphState]
  /\ UNCHANGED <<page, formVars, buttons, konami, reveal>>

\* handleButtonClick up to its first await; a click reaches a link whatever
\* its disabled property says
MorphClick(b) ==
  /\ morph # <<>>
  /\ gestures < MaxMorphEvents
  /\ b # "plain" \/ ~morph[b].disabled
  /\ gestures' = gestures + 1
  /\ morph' =
       IF morph[b].isProcessing THEN morph
       ELSE IF Href(b) \notin {"", "#"}
       THEN [morph EXCEPT ![b] = setButtonLoadingState(@)]
       ELSE [morph EXCEPT ![b] = [setButtonLoadingState(@) EXCEPT
                                    !.isProcessing = TRUE, !.step = "minLoading"]]
  /\ UNCHANGED <<page, formVars, buttons, konami, reveal>>

\* the 800ms minimum loading time is over: simulateAsyncOperation()
MorphLoadingShown(b) ==
  /\ morph # <<>>
  /\ morph[b].step = "minLoading"
  /\ morph' = [morph EXCEPT ![b].step = "operation"]
  /\ UNCHANGED <<page, formVars, buttons, konami, reveal, gestures>>

\* the simulated operation resolves: setButtonSuccessState(button)
MorphOperationDone(b) ==
  /\ morph # <<>>
  /\ morph[b].step = "operation"
  /\ morph' = [morph EXCEPT ![b].morphState = "success", ![b].content = "success",
                            ![b].step = "successHold"]
  /\ UNCHANGED <<page, formVars, buttons, konami, reveal, gestures>>

\* the 2000ms success time is over: isProcessing = false, resetButtonState
MorphSuccessShown(b) ==
  /\ morph # <<>>
  /\ morph[b].step = "successHold"
  /\ morph' = [morph EXCEPT ![b].isProcessing = FALSE, ![b].morphState = "none",
                            ![b].disabled = FALSE, ![b].content = "original",
                            ![b].step = "none"]
  /\ UNCHANGED <<page, formVars, buttons, konami, reveal, gestures>>

MorphNext ==
  \/ \E b \in MorphButtons : \E m \in {"hover", "active", "none"} : MorphPointer(b, m)
  \/ \E b \in MorphButtons : MorphClick(b)
  \/ \E b \in MorphButtons : MorphLoadingShown(b)
  \/ \E b \in MorphButtons : MorphOperationDone(b)
  \/ \E b \in MorphButtons : MorphSuccessShown(b)

MorphSpec == MorphInit /\ [][MorphNext]_vars

\* every timer that is pending fires
MorphFairSpec ==
  /\ MorphSpec
  /\ \A b \in MorphButtons :
       /\ WF_vars(MorphLoadingShown(b))
       /\ WF_vars(MorphOperationDone(b))
       /\ WF_vars(MorphSuccessShown(b))

----------------------------------------------------------------------------
(* Properties *)

AllEnabled  == \A f \in FieldNames : ~fields[f].disabled
AllDisabled == \A f \in FieldNames : fields[f].disabled

\* C1: ContactForm.handleSubmit: a submit event that arrives while state is
\* SUBMITTING starts no simulated call, leaves state at SUBMITTING and changes
\* no field, marker, banner, timer or disabled flag; at most one simulated
\* call is outstanding in every reachable state.
C1_DuplicateSubmitIsNoOp ==
  /\ [](page = "class" => calls <= 1)
  /\ [][(state = SUBMITTING /\ handleSubmit) =>
          UNCHANGED <<fields, focus, submitDisabled, validationTimeout, calls,
                      state, stateLog, display, errorBanner, dismissTimers>>]_vars

C1_Witness == page = "class" /\ ev = "submit_ignored" /\ state = SUBMITTING /\ calls = 1

\* C2: app.js: at most one submitFormData call is outstanding at a time, and
\* formState.isSubmitting is true for as long as a call is outstanding.
C2_AtMostOneCall ==
  page = "app" => (calls <= 1 /\ (calls > 0 => formState.isSubmitting))

\* C3: app.js handleFormSubmit: a submit event that arrives while
\* formState.isSubmitting is true starts no call and leaves formState.errors,
\* every field's error indicator and the displayed banner unchanged.
C3_SubmitWhileSubmittingIsNoOp ==
  [][(handleFormSubmit /\ formState.isSubmitting) =>
       (calls' = calls /\ formState'.errors = formState.errors
          /\ fields' = fields /\ formMessage' = formMessage)]_vars

\* C4: every submission that entered Submitting eventually leaves it, and once
\* the simulated call has settled, with success or with failure, all fields
\* and the submit control are enabled and the loading indicator is hidden.
C4_FormRestored ==
  /\ [](ev \in {"resolve_success", "resolve_failure"} =>
          (AllEnabled /\ ~submitDisabled /\ ~display.loading
             /\ state # SUBMITTING /\ ~formState.isSubmitting))
  /\ (page = "class" /\ state = SUBMITTING) ~>
          (state # SUBMITTING /\ AllEnabled /\ ~submitDisabled /\ ~display.loading)
  /\ (page = "app" /\ formState.isSubmitting) ~>
          (~formState.isSubmitting /\ ~submitDisabled)

C4_Witness ==
  /\ ev = "resolve_failure"
  /\ AllEnabled /\ ~submitDisabled
  /\ (page = "class" => state = ERROR /\ ~display.loading)
  /\ (page = "app" => formMessage.kind = "error")

\* the transitions the state machine is described with
DescribedTransitions ==
  { <<IDLE, SUBMITTING>>, <<SUBMITTING, SUCCESS>>, <<SUBMITTING, ERROR>>,
    <<SUCCESS, IDLE>>, <<ERROR, IDLE>> }

ChangesWithin(T) ==
  /\ state \in {IDLE, SUBMITTING, SUCCESS, ERROR}
  /\ state = stateLog[Len(stateLog)]
  /\ \A i \in 1..(Len(stateLog) - 1) :
        stateLog[i] # stateLog[i + 1] => <<stateLog[i], stateLog[i + 1]>> \in T

\* C5 as stated: every change of ContactForm.state is one of Idle->Submitting,
\* Submitting->Success, Submitting->Error, Success->Idle, Error->Idle.
C5_DescribedTransitionsOnly == ChangesWithin(DescribedTransitions)

\* C5: every change of ContactForm.state is one of Idle->Submitting,
\* Error->Submitting, Submitting->Success, Submitting->Error, Success->Idle,
\* Error->Idle; Submitting is entered only from Idle or Error, and the state
\* is always one of Idle, Submitting, Success, Error.
C5_Transitions == ChangesWithin(DescribedTransitions \cup {<<ERROR, SUBMITTING>>})

C5_Witness == page = "class" /\ stateLog = <<ERROR, SUBMITTING>>

\* C6: ContactForm: whenever state is SUBMITTING, and whenever a simulated
\* call is outstanding, all fields and the submit control are disabled, the
\* loading indicator is shown and neither banner is visible.
C6_SubmittingLocksForm ==
  (page = "class" /\ (state = SUBMITTING \/ calls > 0)) =>
     /\ state = SUBMITTING
     /\ AllDisabled /\ submitDisabled
     /\ display.loading /\ ~display.success /\ ~display.error

C6_Witness ==
  /\ page = "class" /\ ev = "submit_valid" /\ calls = 1
  /\ dismissTimers.error > 0

\* the first field, in field order, whose live value its rule rejects
FirstInvalid(fs) ==
  LET idx == {i \in 1..Len(FieldOrder) :
                FieldOrder[i] \in RuleNames /\ FailingRule(fs, FieldOrder[i]) # "none"}
  IN  IF idx = {} THEN "none" ELSE FieldOrder[CHOOSE i \in idx : \A j \in idx : i <= j]

\* C7: ContactForm.handleSubmit: when validateAllFields fails, focus moves to
\* the first invalid field in field order, state keeps its value, no simulated
\* call is started and no field or the submit control is disabled.
C7_InvalidSubmit ==
  [][(state # SUBMITTING /\ handleSubmit /\ FirstInvalid(fields) # "none") =>
       /\ focus' = FirstInvalid(fields)
       /\ state' = state /\ stateLog' = stateLog
       /\ calls' = calls
       /\ AllEnabled' /\ ~submitDisabled']_vars

C7_Witness ==
  /\ page = "class" /\ ev = "submit_invalid"
  /\ focus = "email" /\ FirstInvalid(fields) = "email"
  /\ "error" \in fields["message"].classList
  /\ state = ERROR

\* the first field, in validation order, that validateField rejects
AppFirstInvalid(fs) ==
  LET idx == {i \in 1..Len(AppOrder) : AppErrorMessage(fs, AppOrder[i]) # ""}
  IN  IF idx = {} THEN "none" ELSE AppOrder[CHOOSE i \in idx : \A j \in idx : i <= j]

\* C8: app.js handleFormSubmit: when validation fails on submit, focus is on
\* the first invalid field in the order name, email, message.
C8_AppFocusFirstInvalid ==
  (page = "app" /\ ev = "submit_invalid") => focus = AppFirstInvalid(fields)

FieldClean(f) ==
  /\ fields[f].value = DefaultValue(f)
  /\ fields[f].classList = {}
  /\ ~fields[f].ariaInvalid
  /\ fields[f].errorText = ""
  /\ ~fields[f].disabled

FormClean == state = IDLE /\ \A f \in FieldNames : FieldClean(f)

\* C9: ContactForm: after a simulated call resolves with success, state is
\* Idle, every field is empty or unchecked, enabled, without error, success or
\* validated marker and with aria-invalid false; and no debounce or
\* auto-dismiss timer that fires on such a form changes that.
C9_CleanAfterSuccess ==
  /\ []((page = "class" /\ ev = "resolve_success") => FormClean)
  /\ [][(FormClean /\ (ClassDebounce \/ \E k \in {"success", "error"} : ClassDismiss(k)))
          => FormClean']_vars

C9_Witness ==
  /\ page = "class" /\ FormClean /\ ev = "debounce"
  /\ display.success

\* C10: ContactForm: when a simulated call resolves with failure, state is
\* Error, all fields and the submit control are enabled, and the error banner
\* is visible with the response's error message when it has one and the
\* generic fallback text otherwise.
C10_FailureBanner ==
  [][\A response \in Responses :
       (ClassResolve(response) /\ ~response.success) =>
          /\ state' = ERROR
          /\ AllEnabled' /\ ~submitDisabled'
          /\ display'.error
          /\ errorBanner' = IF response.error \in {"null", ""}
                            THEN "Submission failed. Please try again."
                            ELSE response.error]_vars

C10_Witness ==
  /\ page = "class" /\ ev = "resolve_failure" /\ state = ERROR
  /\ display.error /\ errorBanner = "Server error. Please try again later."
  /\ AllEnabled /\ ~submitDisabled

Values == [f \in FieldNames |-> fields[f].value]

\* C11: ContactForm: from the start of a submission until it ends in failure
\* no field's value changes, and a simulated call is started only by a
\* submit event (no automatic retry).
C11_FailureKeepsValues ==
  [][page = "class" =>
       /\ (state = SUBMITTING /\ state' \in {SUBMITTING, ERROR}) => Values' = Values
       /\ calls' > calls => handleSubmit]_vars

C11_Witness ==
  /\ page = "class" /\ ev = "resolve_failure" /\ state = ERROR /\ calls = 0
  /\ \A f \in FieldNames : fields[f].value = FilledValue(f)

\* C12: ContactForm banners: a banner shown when a submission resolves stays
\* visible until its own 8000ms auto-dismiss timer fires or the next valid
\* submission begins.  Auto-dismiss timers share one delay and fire in the
\* order they were set, so while any timer of a container is pending the one
\* of the banner shown last is pending too.
C12_BannerOutlivesStaleTimers ==
  page = "class" =>
    /\ (state = ERROR /\ dismissTimers.error > 0) => display.error
    /\ (state = IDLE /\ dismissTimers.success > 0) => display.success

Pending == IF validationTimeout # "none" THEN 1 ELSE 0

\* C13 as stated: ContactForm: once the debounce timer of a burst of email
\* inputs has fired, exactly one validateField('email') pass has been made
\* by the debounce since the last input, and never more than one.
C13_OnePassPerBurst ==
  (page = "class" /\ debounceLog.inputs > 0) =>
    /\ debounceLog.passes <= 1
    /\ validationTimeout = "none" => debounceLog.passes = 1

\* C13 amended: ContactForm: after the last email input of a burst exactly
\* one debounce callback is pending or has run (never one per input), and the
\* callback makes one validateField('email') pass when the trimmed value is
\* non-empty at that moment and none when it is empty.
C13_OneCallbackPerBurst ==
  (page = "class" /\ debounceLog.inputs > 0) =>
    /\ debounceLog.runs + Pending = 1
    /\ debounceLog.passes <= debounceLog.runs
    /\ ev = "debounce" =>
         debounceLog.passes = IF Trim(fields.email.value) # <<>> THEN 1 ELSE 0

C13_Witness ==
  /\ page = "class" /\ ev = "debounce"
  /\ debounceLog = [inputs |-> 2, runs |-> 1, passes |-> 1]

\* C14: ContactForm: when the debounce timer fires with the trimmed email
\* value empty, no validation runs and no field's markers change; with a
\* non-empty value the email field is validated, its markers showing the
\* result.
C14_DebounceSkipsEmpty ==
  [][(ev' = "debounce" /\ page = "class" /\ ClassDebounce) =>
       IF Trim(fields.email.value) = <<>>
       THEN fields' = fields /\ debounceLog'.passes = debounceLog.passes
       ELSE /\ debounceLog'.passes = debounceLog.passes + 1
            /\ fields' = validateField(fields, "email").fields
            /\ ("error" \in fields'.email.classList) = (FailingRule(fields, "email") # "none")
            /\ fields'.email.ariaInvalid = (FailingRule(fields, "email") # "none")]_vars

C14_Witness ==
  /\ page = "class" /\ ev = "debounce"
  /\ debounceLog.runs = 1 /\ debounceLog.passes = 0
  /\ fields.email.value = <<>>
  /\ "success" \in fields.email.classList

\* C15: ContactForm: every input event on a field leaves that field without
\* error indicator, with aria-invalid false and an empty error text, whatever
\* the new value; and an error indicator appears on a field only in a blur of
\* that field, a debounce callback (email) or a submit.
C15_InputClearsError ==
  [][page = "class" =>
       \A f \in FieldNames :
         /\ (ev' = "input" /\ focus' = f /\ fields'[f].value # fields[f].value) =>
              /\ "error" \notin fields'[f].classList
              /\ ~fields'[f].ariaInvalid
              /\ fields'[f].errorText = ""
         /\ (\/ "error" \in fields'[f].classList /\ "error" \notin fields[f].classList
             \/ fields'[f].ariaInvalid /\ ~fields[f].ariaInvalid) =>
              \/ ClassBlur(f)
              \/ f = "email" /\ ClassDebounce
              \/ handleSubmit]_vars

C15_Witness ==
  /\ page = "class" /\ ev = "input" /\ focus = "email"
  /\ fields.email.classList = {"validated"}
  /\ ~fields.email.ariaInvalid
  /\ FailingRule(fields, "email") # "none"

\* C16: resetForm, whatever the state before it: ContactForm: every field
\* loses its error, success and validated markers, aria-invalid is false, the
\* error text is empty and state is Idle; app.js: formState equals its initial
\* value (isSubmitting false, errors empty) and no validated field keeps an
\* error marker.
C16_ResetClearsAll ==
  [][/\ (ev' = "resolve_success" /\ page = "class") =>
          /\ state' = IDLE
          /\ \A f \in FieldNames :
               /\ fields'[f].classList \cap {"error", "success", "validated"} = {}
               /\ ~fields'[f].ariaInvalid
               /\ fields'[f].errorText = ""
     /\ (ev' = "reset" /\ page = "app" /\ AppReset) =>
          /\ formState' = InitialFormState
          /\ ~formState'.isSubmitting /\ formState'.errors = <<>>
          /\ \A f \in AppFields :
               /\ "error" \notin fields'[f].classList
               /\ ~fields'[f].ariaInvalid
               /\ fields'[f].errorText = ""]_vars

C16_Witness ==
  /\ page = "app" /\ ev = "reset" /\ calls = 1
  /\ formState = InitialFormState
  /\ \A f \in AppFields : fields[f].classList = {}

\* C18: one validateAll pass (ContactForm.validateAllFields in handleSubmit,
\* app.js validateForm in handleFormSubmit) validates every governed field
\* even after an earlier one failed: afterwards each governed field carries
\* the error indicator and its own message exactly when its value is invalid,
\* and the pass fails exactly when some governed field is invalid.
C18_ValidateAllShowsEveryError ==
  [][/\ (state # SUBMITTING /\ page = "class" /\ handleSubmit) =>
          /\ \A f \in RuleNames :
               LET r == validateField(fields, f) IN
               /\ ("error" \in fields'[f].classList) = ~r.valid
               /\ fields'[f].ariaInvalid = ~r.valid
               /\ fields'[f].errorText = r.fields[f].errorText
               /\ r.valid => "success" \in fields'[f].classList
          /\ validateAllFields(fields).valid = \A f \in RuleNames : validateField(fields, f).valid
          /\ (ev' = "submit_invalid") = \E f \in RuleNames : ~validateField(fields, f).valid
     /\ (page = "app" /\ handleFormSubmit) =>
          /\ \A f \in AppFields :
               LET message == AppErrorMessage(fields, f) IN
               /\ ("error" \in fields'[f].classList) = (message # "")
               /\ fields'[f].errorText = message
               /\ HasError(formState'.errors, f) = (message # "")
          /\ validateForm(formState.errors, fields).valid =
               \A f \in AppFields : AppErrorMessage(fields, f) = ""
          /\ (ev' = "submit_invalid") = \E f \in AppFields : AppErrorMessage(fields, f) # ""]_vars

C18_Witness ==
  /\ page = "class" /\ ev = "submit_invalid"
  /\ \A f \in {"name", "email", "consent"} :
       "error" \in fields[f].classList /\ fields[f].errorText = validationRules[f].message
  /\ "success" \in fields.phone.classList

RuleKinds == <<"required", "minLength", "maxLength", "pattern">>

\* whether one rule, taken alone, rejects the value; the length and pattern
\* rules reject nothing when the value is empty
RuleFails(f, kind, value) ==
  LET rules == validationRules[f] IN
  CASE kind = "required"  -> rules.required /\ Falsy(f, value)
    [] kind = "minLength" ->
         ~Falsy(f, value) /\ ~IsCheckbox(f) /\ rules.minLength # 0 /\ Len(value) < rules.minLength
    [] kind = "maxLength" ->
         ~Falsy(f, value) /\ ~IsCheckbox(f) /\ rules.maxLength # 0 /\ Len(value) > rules.maxLength
    [] kind = "pattern"   ->
         ~Falsy(f, value) /\ ~IsCheckbox(f) /\ rules.pattern # "none" /\ ~Test(rules.pattern, value)

FirstFailing(f, value) ==
  LET failing == {i \in 1..Len(RuleKinds) : RuleFails(f, RuleKinds[i], value)}
  IN  IF f \notin RuleNames \/ failing = {} THEN "none"
      ELSE RuleKinds[CHOOSE i \in failing : \A j \in failing : i <= j]

\* C17: ContactForm.validateField: the rule that decides is the first, in the
\* order required, minLength, maxLength, pattern, that rejects the live value,
\* the length and pattern rules rejecting nothing when the value is empty; the
\* field then shows the error with the rule's message (the generic text of
\* that rule when there is no message); when no rule rejects, the field is
\* marked valid, and a field without rules is left alone.
C17_FirstFailingRuleDecides ==
  [][\A f \in FieldNames :
       (ev' = "blur" /\ page = "class" /\ focus = f /\ ClassBlur(f)) =>
         LET rule == FirstFailing(f, LiveValue(fields, f)) IN
         /\ f \in RuleNames => FailingRule(fields, f) = rule
         /\ validateField(fields, f).valid = (rule = "none")
         /\ IF f \notin RuleNames THEN fields' = fields
            ELSE IF rule = "none"
            THEN /\ fields'[f].classList = {"success", "validated"}
                 /\ ~fields'[f].ariaInvalid
                 /\ fields'[f].errorText = ""
            ELSE /\ fields'[f].classList = {"error"}
                 /\ fields'[f].ariaInvalid
                 /\ fields'[f].errorText =
                      IF validationRules[f].message # "" THEN validationRules[f].message
                      ELSE GenericMessage(f, rule)]_vars

C17_Witness ==
  /\ page = "class" /\ ev = "blur"
  /\ fields.phone.value = <<" ", "\t", "\n">>
  /\ fields.phone.classList = {"success", "validated"}

\* one step of an automaton for ^[^\s@]+@[^\s@]+\.[^\s@]+$ : 0 start, 1 in
\* the local part, 2 after "@", 3 in the domain, 4 after a ".", 5 accepting
EmailStep(Q, c) ==
  LET plain == ~IsSpace(c) /\ c # "@" IN
  {q2 \in 1..5 : \E q \in Q :
     \/ q \in {0, 1} /\ plain /\ q2 = 1
     \/ q = 1 /\ c = "@" /\ q2 = 2
     \/ q \in {2, 3} /\ plain /\ q2 = 3
     \/ q = 3 /\ c = "." /\ q2 = 4
     \/ q \in {4, 5} /\ plain /\ q2 = 5}

RECURSIVE EmailRun(_, _)
EmailRun(Q, s) == IF s = <<>> THEN Q ELSE EmailRun(EmailStep(Q, Head(s)), Tail(s))

MatchesEmailRegex(s) == 5 \in EmailRun({0}, s)

\* C19: validateField('email'), in ContactForm and in app.js, returns true,
\* and leaves the field without error indicator, exactly when the value with
\* leading and trailing whitespace removed matches
\* ^[^\s@]+@[^\s@]+\.[^\s@]+$ .
C19_EmailIffRegex ==
  [][(ev' = "blur" /\ focus = "email" /\ (ClassBlur("email") \/ AppBlur("email"))) =>
       LET ok == MatchesEmailRegex(Trim(fields.email.value)) IN
       /\ ("error" \in fields'.email.classList) = ~ok
       /\ page = "class" => validateField(fields, "email").valid = ok
       /\ page = "app" =>
            /\ appValidateField(formState.errors, fields, "email").valid = ok
            /\ HasError(formState'.errors, "email") = ~ok]_vars

C19_Witness ==
  /\ page = "app" /\ ev = "blur"
  /\ fields.email.value = <<" ", "a", "@", "a", ".", "a", "\t", "\n">>
  /\ "error" \notin fields.email.classList
  /\ formState.errors = <<>>

NameValid == "error" \notin fields.name.classList

LettersOnly(v, alphabet) == \A i \in 1..Len(v) : v[i] \in alphabet

\* C20: validateField('name'), in ContactForm and in app.js, returns
\* false when the trimmed value has fewer than 2 or more than 100 characters,
\* and true for every trimmed value of 2 to 100 letters, whatever the letters
\* ("é" is one).
C20_NameLengthAndLetters ==
  [][(ev' = "blur" /\ focus = "name" /\ (ClassBlur("name") \/ AppBlur("name"))) =>
       LET v == Trim(fields.name.value) IN
       /\ (Len(v) < 2 \/ Len(v) > 100) => ~NameValid'
       /\ (Len(v) \in 2..100 /\ LettersOnly(v, Letters \cup {"é"})) => NameValid']_vars

\* C21: ContactForm: validateField on company, the field without rules,
\* returns true whatever the value and changes no marker of any field; and
\* the result of validateAllFields does not depend on the company value.
C21_NoRuleAlwaysValid ==
  [][page = "class" =>
       /\ (ev' = "blur" /\ ClassBlur("company")) =>
            /\ validateField(fields, "company").valid
            /\ fields' = fields
       /\ (ev' = "input" /\ fields'.company.value # fields.company.value) =>
            /\ validateField(fields', "company") = [valid |-> TRUE, fields |-> fields']
            /\ validateAllFields(fields').valid = validateAllFields(fields).valid
            /\ validateAllFields(fields').fields.company = fields'.company]_vars

C21_Witness ==
  /\ page = "class" /\ ev = "blur"
  /\ fields.company.value = <<"C", "o">>
  /\ \A f \in FieldNames : fields[f].classList = {} /\ ~fields[f].ariaInvalid

\* C26: app.js: while the error banner of a failed submission is shown, no
\* step other than a user event (input, blur or submit) changes a field value
\* or the banner; in particular no timer of an earlier submission does.
C26_FailureStaysUntilUserEvent ==
  [][(page = "app" /\ formMessage.kind = "error" /\ events' = events) =>
       (Values' = Values /\ formMessage' = formMessage)]_vars

\* C27: app.js: a debounced validateField call pending for a field is dropped
\* only by running, or restarted by an input on that same field; an input on
\* another field does not take it away.
C27_DebouncePerField ==
  [][page = "app" =>
       \A f \in AppFields :
         (validationTimeout = f /\ validationTimeout' # f) => AppDebounce]_vars

\* C28: ContactForm: in every reachable state every governed field has
\* aria-invalid true exactly when it carries the error class, and never
\* carries the error class and the success class together.
C28_MarkersConsistent ==
  page = "class" =>
    \A f \in RuleNames :
      /\ fields[f].ariaInvalid = ("error" \in fields[f].classList)
      /\ ~({"error", "success"} \subseteq fields[f].classList)

C28_Witness ==
  /\ page = "class" /\ ev = "blur"
  /\ fields.email.classList = {"error", "validated"}
  /\ fields.email.ariaInvalid

\* C29: app.js: in every reachable state formState.errors has an entry for a
\* field exactly when the field shows the error class, aria-invalid and an
\* error message, and the entry's text is the message shown.
C29_ErrorsMatchIndicators ==
  page = "app" =>
    \A f \in AppFields :
      /\ HasError(formState.errors, f) = ("error" \in fields[f].classList)
      /\ HasError(formState.errors, f) = fields[f].ariaInvalid
      /\ HasError(formState.errors, f) = (fields[f].errorText # "")
      /\ \A i \in 1..Len(formState.errors) :
           formState.errors[i].field = f => formState.errors[i].message = fields[f].errorText

C29_Witness ==
  /\ page = "app" /\ ev = "debounce"
  /\ Len(formState.errors) = 2
  /\ fields.email.errorText = "Please enter a valid email address"
  /\ fields.name.errorText = "Name is required"

ButtonIdle(b) == buttons[b].classList = {} /\ ~buttons[b].disabled

\* C22: script.js morphing buttons: a click on a button that carries the
\* loading or the success class changes nothing and starts no operation; no
\* button has more than one operation in flight, and none carries loading
\* and success together.
C22_OneOperationPerButton ==
  /\ [](page = "script" =>
         \A b \in Buttons :
           /\ buttons[b].operations <= 1
           /\ ~({"loading", "success"} \subseteq buttons[b].classList))
  /\ [][\A b \in Buttons :
          (buttons[b].classList # {} /\ BtnClick(b)) => buttons' = buttons]_vars

C22_Witness ==
  /\ page = "script" /\ gestures = 2
  /\ buttons.hero.kind = "a" /\ buttons.hero.classList = {"loading"}
  /\ buttons.hero.operations = 1
  /\ buttons.cta.log = <<>>

IsPrefix(s, t) == Len(s) <= Len(t) /\ s = SubSeq(t, 1, Len(s))

\* C23: script.js morphing buttons: after an accepted click a button goes
\* through loading, success, idle in that order, only the reset timer takes
\* it out of success, and a button that is loading or shows success is
\* eventually idle again (no class, enabled), whatever is clicked meanwhile.
C23_ButtonCycle ==
  /\ [](page = "script" =>
         \A b \in Buttons : IsPrefix(buttons[b].log, <<"loading", "success", "idle">>))
  /\ [][\A b \in Buttons :
          ("success" \in buttons[b].classList /\ buttons'[b] # buttons[b]) =>
             (BtnReset(b) /\ ButtonIdle(b)')]_vars
  /\ \A b \in Buttons : (page = "script" /\ ~ButtonIdle(b)) ~> ButtonIdle(b)

C23_Witness ==
  /\ page = "script" /\ gestures = MaxClicks
  /\ buttons.hero.kind = "a"
  /\ buttons.hero.log = <<"loading", "success", "idle">>
  /\ ButtonIdle("hero")
  /\ buttons.cta.log = <<>>

\* C24: script.js Konami code: whenever the ten most recent keys are the
\* code, the key just pressed activated the easter egg, whatever came before;
\* and konamiCodePosition is within 0..9 between events.
C24_KonamiAlwaysRecognised ==
  page = "script" =>
    /\ konami.matched = Len(konamiCode) => konami.activated
    /\ konami.position \in 0..9

\* C25: scroll reveal, both scripts: an element is scheduled for reveal at
\* most once; its first intersection unobserves it and schedules the reveal;
\* later intersection changes alter nothing but its position; and a revealed
\* element stays revealed.
C25_RevealedOnce ==
  /\ [](reveal # <<>> =>
         \A e \in RevealElements :
           /\ reveal.els[e].scheduled <= 1
           /\ reveal.els[e].timers <= reveal.els[e].scheduled
           /\ reveal.els[e].observed => reveal.els[e].scheduled = 0)
  /\ [][reveal # <<>> =>
          \A e \in RevealElements :
            LET el == reveal.els[e]
                after == reveal'.els[e] IN
            /\ (el.observed /\ after.inView) =>
                 (~after.observed /\ after.timers = 1 /\ after.shown = el.shown)
            /\ (~el.observed /\ after.inView # el.inView) =>
                 after = [el EXCEPT !.inView = ~@]
            /\ el.shown = "visible" => after.shown = "visible"]_vars

C25_Witness ==
  /\ page = "app" /\ reveal # <<>> /\ reveal.mode = "observer"
  /\ reveal.els[1] = [observed |-> FALSE, inView |-> FALSE, shown |-> "visible",
                      timers |-> 0, scheduled |-> 1]
  /\ reveal.els[2].observed

MorphDefault(b) ==
  morph[b].morphState = "none" /\ ~morph[b].disabled /\ morph[b].content = "original"

\* C30: app.js 'Get Started' buttons: the original content is always on the
\* button, in data-original-content, or about to be put back by the click
\* handler; and a button in the loading state is eventually back in its
\* default state (no data-morph-state, enabled, original content), with and
\* without a navigating href.
C30_ButtonReturnsToDefault ==
  /\ [](morph # <<>> =>
         \A b \in MorphButtons :
           morph[b].content = "original" \/ morph[b].saved = "original"
             \/ morph[b].isProcessing)
  /\ \A b \in MorphButtons :
       (morph # <<>> /\ morph[b].morphState = "loading") ~> MorphDefault(b)

====
